---------------------------- MODULE Spec2Model ----------------------------
(***************************************************************************)
(* A model of libtiled's HexagonalRenderer (hexagonalrenderer.cpp) and of  *)
(* the Workspace value type (workspace.h).                                 *)
(*                                                                         *)
(* The renderer holds a map (stagger axis, stagger index, hex side         *)
(* length); every operation takes a Workspace and its own arguments.  A    *)
(* caller invokes one operation, which runs to completion and leaves its   *)
(* return value in `result`, the draw calls it issued on the painter in    *)
(* `painter` and the polygons it tested in `tested`; ReturnToCaller then   *)
(* gives control back.  Points are records [x, y], sizes [width, height],  *)
(* rectangles [x, y, width, height] as QPoint, QSize and QRect are.  All   *)
(* pixel and tile arguments are integers, for which qFloor, toPoint and    *)
(* toAlignedRect return their argument.                                    *)
(***************************************************************************)
EXTENDS Integers, Sequences, FiniteSets, TLC

VARIABLES map, call, result, painter, tested

vars == <<map, call, result, painter, tested>>

(***************************************************************************)
(* Bounds of the model.                                                    *)
(***************************************************************************)
\* largest tile width / height in pixels
MaxTile == 6
\* largest hex side length in pixels
MaxSide == 4
\* largest workspace width / height in tiles
MaxGrid == 3
\* tile indexes passed to the conversions range over -MaxIndex..MaxIndex
MaxIndex == 3

(***************************************************************************)
(* Map::StaggerIndex (map.h).                                              *)
(***************************************************************************)
StaggerOdd == 0
StaggerEven == 1

\* a local variable: Body applied to the value, computed once
With(value, Body(_)) == CHOOSE r \in {Body(v) : v \in {value}} : TRUE

Point(px, py) == [x |-> px, y |-> py]

Plus(a, b) == [x |-> a.x + b.x, y |-> a.y + b.y]

\* n & ~1
ClearBit0(n) == n - (n % 2)

\* n & 1 (two's complement: 1 for every odd n, negative ones too)
Bit0(n) == n % 2

\* a ^ b on the values 0 and 1
Xor(a, b) == IF a = b THEN 0 ELSE 1

\* C++ integer division a / b for b > 0: truncation toward zero
CDiv(a, b) == IF a >= 0 THEN a \div b ELSE -((-a) \div b)

Max(a, b) == IF a >= b THEN a ELSE b

(***************************************************************************)
(* Workspace (workspace.h).                                                *)
(***************************************************************************)
Workspace(w, h, tw, th) ==
    [width |-> w, height |-> h, tileWidth |-> tw, tileHeight |-> th]

\* Workspace(): the default constructor
DefaultWorkspace == Workspace(0, 0, 0, 0)

(***************************************************************************)
(* HexagonalRenderer::RenderParams.                                        *)
(***************************************************************************)
\* RenderParams with the side length set on both axes
RenderParams_BothSides(m, workspace) ==
    LET tileWidth == ClearBit0(workspace.tileWidth)
        tileHeight == ClearBit0(workspace.tileHeight)
        sideOffsetX == CDiv(tileWidth - m.hexSideLength, 2)
        sideOffsetY == CDiv(tileHeight - m.hexSideLength, 2)
    IN  [tileWidth |-> tileWidth, tileHeight |-> tileHeight,
         sideLengthX |-> m.hexSideLength, sideLengthY |-> m.hexSideLength,
         sideOffsetX |-> sideOffsetX, sideOffsetY |-> sideOffsetY,
         columnWidth |-> sideOffsetX + m.hexSideLength,
         rowHeight |-> sideOffsetY + m.hexSideLength,
         staggerX |-> m.staggerAxis = "StaggerX",
         staggerEven |-> m.staggerIndex = StaggerEven]

RenderParams(m, workspace) ==
    LET tileWidth == ClearBit0(workspace.tileWidth)
        tileHeight == ClearBit0(workspace.tileHeight)
        staggerX == m.staggerAxis = "StaggerX"
        staggerEven == m.staggerIndex = StaggerEven
        sideLengthX == IF m.orientation = "Hexagonal" /\ staggerX
                       THEN m.hexSideLength ELSE 0
        sideLengthY == IF m.orientation = "Hexagonal" /\ ~staggerX
                       THEN m.hexSideLength ELSE 0
        sideOffsetX == CDiv(tileWidth - sideLengthX, 2)
        sideOffsetY == CDiv(tileHeight - sideLengthY, 2)
    IN  [tileWidth |-> tileWidth, tileHeight |-> tileHeight,
         sideLengthX |-> sideLengthX, sideLengthY |-> sideLengthY,
         sideOffsetX |-> sideOffsetX, sideOffsetY |-> sideOffsetY,
         columnWidth |-> sideOffsetX + sideLengthX,
         rowHeight |-> sideOffsetY + sideLengthY,
         staggerX |-> staggerX, staggerEven |-> staggerEven]

\* RenderParams::doStaggerX (hexagonalrenderer.h)
doStaggerX(p, x) == IF p.staggerEven THEN x % 2 = 0 ELSE x % 2 # 0

\* RenderParams::doStaggerY (hexagonalrenderer.h)
doStaggerY(p, y) == IF p.staggerEven THEN y % 2 = 0 ELSE y % 2 # 0

(***************************************************************************)
(* Coordinate conversion.                                                  *)
(***************************************************************************)
\* tileToScreenCoords with the stagger offsets of the two axes exchanged
tileToScreenCoords_SwappedOffset(m, x, y, workspace) ==
    LET p == RenderParams(m, workspace)
    IN  IF p.staggerX
        THEN Point(x * p.columnWidth,
                   y * (p.tileHeight + p.sideLengthY)
                     + (IF doStaggerX(p, x) THEN p.columnWidth ELSE 0))
        ELSE Point(x * (p.tileWidth + p.sideLengthX)
                     + (IF doStaggerY(p, y) THEN p.rowHeight ELSE 0),
                   y * p.rowHeight)

tileToScreenCoords(m, x, y, workspace) ==
    LET p == RenderParams(m, workspace)
    IN  IF p.staggerX
        THEN Point(x * p.columnWidth,
                   y * (p.tileHeight + p.sideLengthY)
                     + (IF doStaggerX(p, x) THEN p.rowHeight ELSE 0))
        ELSE Point(x * (p.tileWidth + p.sideLengthX)
                     + (IF doStaggerY(p, y) THEN p.columnWidth ELSE 0),
                   y * p.rowHeight)

\* centers[0..3] of screenToTileCoords, relative to the reference cell
Centers(p) ==
    IF p.staggerX
    THEN LET left == CDiv(p.sideLengthX, 2)
             centerX == left + p.columnWidth
             centerY == CDiv(p.tileHeight, 2)
         IN  <<Point(left, centerY),
               Point(centerX, centerY - p.rowHeight),
               Point(centerX, centerY + p.rowHeight),
               Point(centerX + p.columnWidth, centerY)>>
    ELSE LET top == CDiv(p.sideLengthY, 2)
             centerX == CDiv(p.tileWidth, 2)
             centerY == top + p.rowHeight
         IN  <<Point(centerX, top),
               Point(centerX - p.columnWidth, centerY),
               Point(centerX + p.columnWidth, centerY),
               Point(centerX, centerY + p.rowHeight)>>

\* (center - rel).lengthSquared()
LengthSquared(a, b) == (a.x - b.x) * (a.x - b.x) + (a.y - b.y) * (a.y - b.y)

\* the loop over the four centers: the first index (1..4) of least distance
Nearest(centers, rel) ==
    CHOOSE i \in 1..4 :
        /\ \A j \in 1..4 : LengthSquared(centers[i], rel) <= LengthSquared(centers[j], rel)
        /\ \A j \in 1..(i - 1) : LengthSquared(centers[j], rel) > LengthSquared(centers[i], rel)

offsetsStaggerX == <<Point(0, 0), Point(1, -1), Point(1, 0), Point(2, 0)>>

offsetsStaggerY == <<Point(0, 0), Point(-1, 1), Point(0, 1), Point(0, 2)>>

\* requires columnWidth > 0 and rowHeight > 0 (the code divides by them)
screenToTileCoords(m, x, y, workspace) ==
    LET p == RenderParams(m, workspace)
        sx == IF p.staggerX
              THEN x - (IF p.staggerEven THEN p.tileWidth ELSE p.sideOffsetX)
              ELSE x
        sy == IF p.staggerX
              THEN y
              ELSE y - (IF p.staggerEven THEN p.tileHeight ELSE p.sideOffsetY)
        \* qFloor of the quotient: \div rounds toward minus infinity
        refX == sx \div (p.columnWidth * 2)
        refY == sy \div (p.rowHeight * 2)
        rel == Point(sx - refX * (p.columnWidth * 2), sy - refY * (p.rowHeight * 2))
        bump == IF p.staggerEven THEN 1 ELSE 0
        referencePoint == IF p.staggerX THEN Point(refX * 2 + bump, refY)
                          ELSE Point(refX, refY * 2 + bump)
        offsets == IF p.staggerX THEN offsetsStaggerX ELSE offsetsStaggerY
    IN  With(Centers(p), LAMBDA centers :
        With(rel, LAMBDA r :
            Plus(referencePoint, offsets[Nearest(centers, r)])))

(***************************************************************************)
(* Neighbour lookups.                                                      *)
(***************************************************************************)
\* topLeft testing the parity of the index alone, without the stagger index
topLeft_ParityOnly(m, x, y) ==
    IF m.staggerAxis = "StaggerY"
    THEN IF Bit0(y) # 0 THEN Point(x, y - 1) ELSE Point(x - 1, y - 1)
    ELSE IF Bit0(x) # 0 THEN Point(x - 1, y) ELSE Point(x - 1, y - 1)

topLeft(m, x, y) ==
    IF m.staggerAxis = "StaggerY"
    THEN IF Xor(Bit0(y), m.staggerIndex) # 0 THEN Point(x, y - 1) ELSE Point(x - 1, y - 1)
    ELSE IF Xor(Bit0(x), m.staggerIndex) # 0 THEN Point(x - 1, y) ELSE Point(x - 1, y - 1)

topRight(m, x, y) ==
    IF m.staggerAxis = "StaggerY"
    THEN IF Xor(Bit0(y), m.staggerIndex) # 0 THEN Point(x + 1, y - 1) ELSE Point(x, y - 1)
    ELSE IF Xor(Bit0(x), m.staggerIndex) # 0 THEN Point(x + 1, y) ELSE Point(x + 1, y - 1)

bottomLeft(m, x, y) ==
    IF m.staggerAxis = "StaggerY"
    THEN IF Xor(Bit0(y), m.staggerIndex) # 0 THEN Point(x, y + 1) ELSE Point(x - 1, y + 1)
    ELSE IF Xor(Bit0(x), m.staggerIndex) # 0 THEN Point(x - 1, y + 1) ELSE Point(x - 1, y)

\* bottomRight without the parity test
bottomRight_NoStagger(m, x, y) == Point(x + 1, y + 1)

bottomRight(m, x, y) ==
    IF m.staggerAxis = "StaggerY"
    THEN IF Xor(Bit0(y), m.staggerIndex) # 0 THEN Point(x + 1, y + 1) ELSE Point(x, y + 1)
    ELSE IF Xor(Bit0(x), m.staggerIndex) # 0 THEN Point(x + 1, y + 1) ELSE Point(x + 1, y)

(***************************************************************************)
(* Size and bounds.                                                        *)
(***************************************************************************)
\* workSize whose stagger-Y branch tests the width, as the stagger-X one does
workSize_WidthTest(m, workspace) ==
    LET p == RenderParams(m, workspace)
    IN  IF p.staggerX
        THEN [width |-> workspace.width * p.columnWidth + p.sideOffsetX,
              height |-> workspace.height * (p.tileHeight + p.sideLengthY)
                         + (IF workspace.width > 1 THEN p.rowHeight ELSE 0)]
        ELSE [width |-> workspace.width * (p.tileWidth + p.sideLengthX)
                        + (IF workspace.width > 1 THEN p.columnWidth ELSE 0),
              height |-> workspace.height * p.rowHeight + p.sideOffsetY]

workSize(m, workspace) ==
    LET p == RenderParams(m, workspace)
    IN  IF p.staggerX
        THEN [width |-> workspace.width * p.columnWidth + p.sideOffsetX,
              height |-> workspace.height * (p.tileHeight + p.sideLengthY)
                         + (IF workspace.width > 1 THEN p.rowHeight ELSE 0)]
        ELSE [width |-> workspace.width * (p.tileWidth + p.sideLengthX)
                        + (IF workspace.height > 1 THEN p.columnWidth ELSE 0),
              height |-> workspace.height * p.rowHeight + p.sideOffsetY]

Rect(rx, ry, rw, rh) == [x |-> rx, y |-> ry, width |-> rw, height |-> rh]

boundingRect(m, rect, workspace) ==
    LET p == RenderParams(m, workspace)
        topLeftPos == tileToScreenCoords(m, rect.x, rect.y, workspace)
    IN  IF p.staggerX
        THEN Rect(topLeftPos.x,
                  topLeftPos.y - (IF rect.width > 1 /\ doStaggerX(p, rect.x)
                                  THEN p.rowHeight ELSE 0),
                  rect.width * p.columnWidth + p.sideOffsetX,
                  rect.height * (p.tileHeight + p.sideLengthY)
                    + (IF rect.width > 1 THEN p.rowHeight ELSE 0))
        ELSE Rect(topLeftPos.x - (IF rect.height > 1 /\ doStaggerY(p, rect.y)
                                  THEN p.columnWidth ELSE 0),
                  topLeftPos.y,
                  rect.width * (p.tileWidth + p.sideLengthX)
                    + (IF rect.height > 1 THEN p.columnWidth ELSE 0),
                  rect.height * p.rowHeight + p.sideOffsetY)

(***************************************************************************)
(* The outline of a tile.                                                  *)
(***************************************************************************)
\* oct[0..7] of drawGrid, as Oct(p)[1..8]
Oct(p) ==
    <<Point(0, p.tileHeight - p.sideOffsetY),
      Point(0, p.sideOffsetY),
      Point(p.sideOffsetX, 0),
      Point(p.tileWidth - p.sideOffsetX, 0),
      Point(p.tileWidth, p.sideOffsetY),
      Point(p.tileWidth, p.tileHeight - p.sideOffsetY),
      Point(p.tileWidth - p.sideOffsetX, p.tileHeight),
      Point(p.sideOffsetX, p.tileHeight)>>

\* the outline of tile (x, y) in a workspace: oct[] placed at its screen position
TileOutline(m, x, y, workspace) ==
    LET pos == tileToScreenCoords(m, x, y, workspace)
        oct == Oct(RenderParams(m, workspace))
    IN  [i \in 1..8 |-> Plus(pos, oct[i])]

Cross(a, b, q) == (b.x - a.x) * (q.y - a.y) - (b.y - a.y) * (q.x - a.x)

Next8(i) == IF i = 8 THEN 1 ELSE i + 1

\* q lies strictly inside the convex outline (vertices in clockwise order on
\* a screen whose y axis points down)
StrictlyInside(outline, q) ==
    /\ \E i \in 1..8 : outline[i].x < q.x
    /\ \E i \in 1..8 : outline[i].x > q.x
    /\ \E i \in 1..8 : outline[i].y < q.y
    /\ \E i \in 1..8 : outline[i].y > q.y
    /\ \A i \in 1..8 :
           outline[i] # outline[Next8(i)] => Cross(outline[i], outline[Next8(i)], q) > 0

\* q lies inside the convex outline or on its border
Covers(outline, q) ==
    /\ \E i \in 1..8 : outline[i].x <= q.x
    /\ \E i \in 1..8 : outline[i].x >= q.x
    /\ \E i \in 1..8 : outline[i].y <= q.y
    /\ \E i \in 1..8 : outline[i].y >= q.y
    /\ \A i \in 1..8 : Cross(outline[i], outline[Next8(i)], q) >= 0

(***************************************************************************)
(* Grid-line rasterization.  The painter receives one drawLines call per   *)
(* visited tile; setPen draws nothing and is left out.                     *)
(***************************************************************************)
\* QRect::right, QRect::bottom, QRect::isNull
Right(rect) == rect.x + rect.width - 1

Bottom(rect) == rect.y + rect.height - 1

IsNull(rect) == rect.width = 0 /\ rect.height = 0

Line(a, b) == [p1 |-> a, p2 |-> b]

\* painter->drawLines(lines), noted with the tile the loop is at
DrawLines(tile, lines) == [cmd |-> "drawLines", lines |-> lines, tile |-> tile]

\* the tile to start at: the tile under the top-left corner of the area, one
\* row up and one column left if the corner is in that half, clamped to 0
GridStartTile(m, rect, workspace) ==
    With(RenderParams(m, workspace), LAMBDA p :
    With(screenToTileCoords(m, rect.x, rect.y, workspace), LAMBDA startTile :
    With(tileToScreenCoords(m, startTile.x, startTile.y, workspace), LAMBDA startPos :
        LET inUpperHalf == rect.y - startPos.y < p.sideOffsetY
            inLeftHalf == rect.x - startPos.x < p.sideOffsetX
        IN  Point(Max(0, IF inLeftHalf THEN startTile.x - 1 ELSE startTile.x),
                  Max(0, IF inUpperHalf THEN startTile.y - 1 ELSE startTile.y)))))

\* the lines of one tile of the stagger-X sweep
GridLinesX(p, workspace, rowTile, rowPos) ==
    LET oct == Oct(p)
        isStaggered == doStaggerX(p, rowTile.x)
        lastRow == rowTile.y = workspace.height - 1
        lastColumn == rowTile.x = workspace.width - 1
        drawBottomLeft == rowTile.x = 0 \/ (lastRow /\ isStaggered)
        drawBottomRight == lastColumn \/ (lastRow /\ isStaggered)
    IN  <<Line(Plus(rowPos, oct[2]), Plus(rowPos, oct[3])),
          Line(Plus(rowPos, oct[3]), Plus(rowPos, oct[4])),
          Line(Plus(rowPos, oct[4]), Plus(rowPos, oct[5]))>>
        \o (IF drawBottomRight
             THEN <<Line(Plus(rowPos, oct[6]), Plus(rowPos, oct[7]))>> ELSE <<>>)
        \o (IF lastRow
             THEN <<Line(Plus(rowPos, oct[7]), Plus(rowPos, oct[8]))>> ELSE <<>>)
        \o (IF drawBottomLeft
             THEN <<Line(Plus(rowPos, oct[8]), Plus(rowPos, oct[1]))>> ELSE <<>>)

\* the lines of one tile of the stagger-Y sweep
GridLinesY(p, workspace, rowTile, rowPos) ==
    LET oct == Oct(p)
        isStaggered == doStaggerY(p, rowTile.y)
        lastRow == rowTile.y = workspace.height - 1
        lastColumn == rowTile.x = workspace.width - 1
        drawBottomLeft == lastRow \/ (rowTile.x = 0 /\ ~isStaggered)
        drawBottomRight == lastRow \/ (lastColumn /\ isStaggered)
    IN  <<Line(Plus(rowPos, oct[1]), Plus(rowPos, oct[2])),
          Line(Plus(rowPos, oct[2]), Plus(rowPos, oct[3])),
          Line(Plus(rowPos, oct[4]), Plus(rowPos, oct[5]))>>
        \o (IF lastColumn
             THEN <<Line(Plus(rowPos, oct[5]), Plus(rowPos, oct[6]))>> ELSE <<>>)
        \o (IF drawBottomRight
             THEN <<Line(Plus(rowPos, oct[6]), Plus(rowPos, oct[7]))>> ELSE <<>>)
        \o (IF drawBottomLeft
             THEN <<Line(Plus(rowPos, oct[8]), Plus(rowPos, oct[1]))>> ELSE <<>>)

\* the inner loop of the stagger-X sweep: down one column
RECURSIVE GridColumnX(_, _, _, _, _)
GridColumnX(p, rect, workspace, rowTile, rowPos) ==
    IF rowPos.y <= Bottom(rect) /\ rowTile.y < workspace.height
    THEN <<DrawLines(rowTile, GridLinesX(p, workspace, rowTile, rowPos))>>
         \o GridColumnX(p, rect, workspace, Point(rowTile.x, rowTile.y + 1),
                        Point(rowPos.x, rowPos.y + p.tileHeight + p.sideLengthY))
    ELSE <<>>

\* the outer loop of the stagger-X sweep: startPos has the shift un-applied
RECURSIVE GridSweepX(_, _, _, _, _)
GridSweepX(p, rect, workspace, startTile, startPos) ==
    IF startPos.x <= Right(rect) /\ startTile.x < workspace.width
    THEN GridColumnX(p, rect, workspace, startTile,
                     IF doStaggerX(p, startTile.x)
                     THEN Point(startPos.x, startPos.y + p.rowHeight) ELSE startPos)
         \o GridSweepX(p, rect, workspace, Point(startTile.x + 1, startTile.y),
                       Point(startPos.x + p.columnWidth, startPos.y))
    ELSE <<>>

\* the inner loop of the stagger-Y sweep: along one row
RECURSIVE GridRowY(_, _, _, _, _)
GridRowY(p, rect, workspace, rowTile, rowPos) ==
    IF rowPos.x <= Right(rect) /\ rowTile.x < workspace.width
    THEN <<DrawLines(rowTile, GridLinesY(p, workspace, rowTile, rowPos))>>
         \o GridRowY(p, rect, workspace, Point(rowTile.x + 1, rowTile.y),
                     Point(rowPos.x + p.tileWidth + p.sideLengthX, rowPos.y))
    ELSE <<>>

\* the outer loop of the stagger-Y sweep: startPos has the shift un-applied
RECURSIVE GridSweepY(_, _, _, _, _)
GridSweepY(p, rect, workspace, startTile, startPos) ==
    IF startPos.y <= Bottom(rect) /\ startTile.y < workspace.height
    THEN GridRowY(p, rect, workspace, startTile,
                  IF doStaggerY(p, startTile.y)
                  THEN Point(startPos.x + p.columnWidth, startPos.y) ELSE startPos)
         \o GridSweepY(p, rect, workspace, Point(startTile.x, startTile.y + 1),
                       Point(startPos.x, startPos.y + p.rowHeight))
    ELSE <<>>

\* drawGrid without the early return for a null area
drawGrid_NoNullCheck(m, rect, workspace) ==
    With(RenderParams(m, workspace), LAMBDA p :
    With(GridStartTile(m, rect, workspace), LAMBDA startTile :
    With(tileToScreenCoords(m, startTile.x, startTile.y, workspace), LAMBDA startPos :
        IF p.staggerX
        THEN With(IF doStaggerX(p, startTile.x)
                  THEN Point(startPos.x, startPos.y - p.rowHeight)
                  ELSE startPos,
                  LAMBDA unshifted : GridSweepX(p, rect, workspace, startTile, unshifted))
        ELSE With(IF doStaggerY(p, startTile.y)
                  THEN Point(startPos.x - p.columnWidth, startPos.y)
                  ELSE startPos,
                  LAMBDA unshifted : GridSweepY(p, rect, workspace, startTile, unshifted)))))

\* the draw calls of drawGrid, in order
drawGrid(m, rect, workspace) ==
    IF IsNull(rect) THEN <<>>
    ELSE With(RenderParams(m, workspace), LAMBDA p :
         With(GridStartTile(m, rect, workspace), LAMBDA startTile :
         With(tileToScreenCoords(m, startTile.x, startTile.y, workspace), LAMBDA startPos :
             IF p.staggerX
             THEN With(IF doStaggerX(p, startTile.x)
                       THEN Point(startPos.x, startPos.y - p.rowHeight)
                       ELSE startPos,
                       LAMBDA unshifted : GridSweepX(p, rect, workspace, startTile, unshifted))
             ELSE With(IF doStaggerY(p, startTile.y)
                       THEN Point(startPos.x - p.columnWidth, startPos.y)
                       ELSE startPos,
                       LAMBDA unshifted : GridSweepY(p, rect, workspace, startTile, unshifted)))))

(***************************************************************************)
(* Polygon generation and selection rasterization.                         *)
(***************************************************************************)
\* the polygon of a tile: built from a default-constructed Workspace
tileToScreenPolygon(m, x, y) ==
    LET workspace == DefaultWorkspace
        p == RenderParams(m, workspace)
        topRightPos == tileToScreenCoords(m, x, y, workspace)
        offsets == Oct(p)
    IN  [i \in 1..8 |-> Plus(topRightPos, offsets[i])]

MinOf(S) == CHOOSE v \in S : \A w \in S : v <= w

MaxOf(S) == CHOOSE v \in S : \A w \in S : v >= w

\* QPolygonF::boundingRect
PolygonBoundingRect(polygon) ==
    LET xs == {polygon[i].x : i \in 1..8}
        ys == {polygon[i].y : i \in 1..8}
    IN  Rect(MinOf(xs), MinOf(ys), MaxOf(xs) - MinOf(xs), MaxOf(ys) - MinOf(ys))

\* QRectF::intersects for rectangles of non-negative width and height: false
\* when either has no width or no height, else whether the areas overlap
Intersects(a, b) ==
    /\ a.width # 0
    /\ b.width # 0
    /\ ~(a.x >= b.x + b.width \/ b.x >= a.x + a.width)
    /\ a.height # 0
    /\ b.height # 0
    /\ ~(a.y >= b.y + b.height \/ b.y >= a.y + a.height)

\* the tiles of a rectangle in the order of the two loops: rows, then columns
RectTiles(r) ==
    [k \in 1..(r.width * r.height) |->
        Point(r.x + ((k - 1) % r.width), r.y + ((k - 1) \div r.width))]

\* the tiles of all rectangles of a region, in order
RECURSIVE RegionTiles(_)
RegionTiles(rects) ==
    IF rects = <<>> THEN <<>>
    ELSE RectTiles(Head(rects)) \o RegionTiles(Tail(rects))

\* the polygons drawTileSelection builds and tests against the exposed area
SelectionPolygons(m, region) ==
    LET tiles == RegionTiles(region)
    IN  [k \in 1..Len(tiles) |->
            [x |-> tiles[k].x, y |-> tiles[k].y,
             polygon |-> tileToScreenPolygon(m, tiles[k].x, tiles[k].y)]]

DrawConvexPolygon(polygon) == [cmd |-> "drawConvexPolygon", polygon |-> polygon]

\* the draw calls of drawTileSelection, in order (the workspace is not read)
drawTileSelection(m, region, workspace, exposed) ==
    LET built == SelectionPolygons(m, region)
        hit == SelectSeq(built, LAMBDA t : Intersects(PolygonBoundingRect(t.polygon), exposed))
    IN  [k \in 1..Len(hit) |-> DrawConvexPolygon(hit[k].polygon)]

(***************************************************************************)
(* Tile-layer rasterization.  A layer is a record [width, height,          *)
(* tileWidth, tileHeight, x, y, drawMargins, cells]; cells maps the tiles  *)
(* of the layer to cells [isEmpty, hasTile, size]: an empty cell, a cell   *)
(* whose tile is null, or a cell with a tile of the given size.            *)
(***************************************************************************)
\* Workspace::tileSize
tileSize(workspace) == [width |-> workspace.width, height |-> workspace.height]

\* TileLayer::contains
Contains(layer, tile) ==
    /\ 0 <= tile.x
    /\ tile.x < layer.width
    /\ 0 <= tile.y
    /\ tile.y < layer.height

Render(tile, pos, size) ==
    [cmd |-> "render", tile |-> tile, pos |-> pos, size |-> size, origin |-> "BottomLeft"]

\* the render call for the cell at rowTile, if it is not empty
RenderCell(layer, tileWorkspace, rowTile, rowPos) ==
    LET cell == layer.cells[rowTile]
    IN  IF cell.isEmpty THEN <<>>
        ELSE <<Render(rowTile, rowPos,
                      IF cell.hasTile THEN cell.size ELSE tileSize(tileWorkspace))>>

\* the area to draw: the exposed one, or the whole layer when that is null,
\* adjusted by the draw margins
LayerRect(m, layer, tileWorkspace, exposed) ==
    With(RenderParams(m, tileWorkspace), LAMBDA p :
    With(IF IsNull(exposed)
         THEN boundingRect(m, Rect(layer.x, layer.y, layer.width, layer.height),
                           tileWorkspace)
         ELSE exposed,
         LAMBDA rect :
             LET marginBottom == layer.drawMargins.bottom + p.tileHeight
                 marginRight == layer.drawMargins.right - p.tileWidth
                 x1 == rect.x - marginRight
                 y1 == rect.y - marginBottom
                 x2 == Right(rect) + layer.drawMargins.left
                 y2 == Bottom(rect) + layer.drawMargins.top
             IN  Rect(x1, y1, x2 - x1 + 1, y2 - y1 + 1)))

\* the layer-local tile to start at, before it is clamped
LayerStartTile(m, layer, tileWorkspace, rect) ==
    With(RenderParams(m, tileWorkspace), LAMBDA p :
    With(screenToTileCoords(m, rect.x, rect.y, tileWorkspace), LAMBDA found :
    With(Point(found.x - layer.x, found.y - layer.y), LAMBDA startTile :
    With(tileToScreenCoords(m, startTile.x + layer.x, startTile.y + layer.y, tileWorkspace),
         LAMBDA startPos :
             LET inUpperHalf == rect.y - startPos.y < p.sideOffsetY
                 inLeftHalf == rect.x - startPos.x < p.sideOffsetX
             IN  Point(IF inLeftHalf THEN startTile.x - 1 ELSE startTile.x,
                       IF inUpperHalf THEN startTile.y - 1 ELSE startTile.y)))))

\* the inner loop of the stagger-X sweep: every second column
RECURSIVE LayerRowX(_, _, _, _, _, _)
LayerRowX(p, rect, layer, tileWorkspace, rowTile, rowPos) ==
    IF rowPos.x < Right(rect) /\ rowTile.x < layer.width
    THEN (IF Contains(layer, rowTile)
          THEN RenderCell(layer, tileWorkspace, rowTile, rowPos) ELSE <<>>)
         \o LayerRowX(p, rect, layer, tileWorkspace, Point(rowTile.x + 2, rowTile.y),
                      Point(rowPos.x + p.tileWidth + p.sideLengthX, rowPos.y))
    ELSE <<>>

\* the outer loop of the stagger-X sweep: the zig-zag over half rows
RECURSIVE LayerSweepX(_, _, _, _, _, _, _)
LayerSweepX(p, rect, layer, tileWorkspace, startTile, startPos, staggeredRow) ==
    IF startPos.y < Bottom(rect) /\ startTile.y < layer.height
    THEN LayerRowX(p, rect, layer, tileWorkspace, startTile, startPos)
         \o (IF staggeredRow
              THEN LayerSweepX(p, rect, layer, tileWorkspace,
                               Point(startTile.x - 1, startTile.y + 1),
                               Point(startPos.x - p.columnWidth, startPos.y + p.rowHeight),
                               FALSE)
              ELSE LayerSweepX(p, rect, layer, tileWorkspace,
                               Point(startTile.x + 1, startTile.y),
                               Point(startPos.x + p.columnWidth, startPos.y + p.rowHeight),
                               TRUE))
    ELSE <<>>

\* the inner loop of the stagger-Y sweep: along one row
RECURSIVE LayerRowY(_, _, _, _, _, _)
LayerRowY(p, rect, layer, tileWorkspace, rowTile, rowPos) ==
    IF rowPos.x < Right(rect) /\ rowTile.x < layer.width
    THEN RenderCell(layer, tileWorkspace, rowTile, rowPos)
         \o LayerRowY(p, rect, layer, tileWorkspace, Point(rowTile.x + 1, rowTile.y),
                      Point(rowPos.x + p.tileWidth + p.sideLengthX, rowPos.y))
    ELSE <<>>

\* the outer loop of the stagger-Y sweep: startPos has the shift un-applied
RECURSIVE LayerSweepY(_, _, _, _, _, _)
LayerSweepY(p, rect, layer, tileWorkspace, startTile, startPos) ==
    IF startPos.y < Bottom(rect) /\ startTile.y < layer.height
    THEN LayerRowY(p, rect, layer, tileWorkspace, startTile,
                   IF doStaggerY(p, startTile.y + layer.y)
                   THEN Point(startPos.x + p.columnWidth, startPos.y) ELSE startPos)
         \o LayerSweepY(p, rect, layer, tileWorkspace, Point(startTile.x, startTile.y + 1),
                        Point(startPos.x, startPos.y + p.rowHeight))
    ELSE <<>>

\* the draw calls of drawTileLayer, in order (the workspace argument is not
\* read: the layer's own is built)
drawTileLayer(m, layer, exposed) ==
    With(Workspace(layer.width, layer.height, layer.tileWidth, layer.tileHeight),
         LAMBDA tileWorkspace :
    With(RenderParams(m, tileWorkspace), LAMBDA p :
    With(LayerRect(m, layer, tileWorkspace, exposed), LAMBDA rect :
    With(LayerStartTile(m, layer, tileWorkspace, rect), LAMBDA unclamped :
        IF p.staggerX
        THEN With(Point(Max(-1, unclamped.x), Max(-1, unclamped.y)), LAMBDA startTile :
             With(tileToScreenCoords(m, startTile.x + layer.x, startTile.y + layer.y,
                                     tileWorkspace),
                  LAMBDA pos :
             With(Point(pos.x, pos.y + p.tileHeight), LAMBDA startPos :
                 LayerSweepX(p, rect, layer, tileWorkspace, startTile, startPos,
                             doStaggerX(p, startTile.x + layer.x)))))
        ELSE With(Point(Max(0, unclamped.x), Max(0, unclamped.y)), LAMBDA startTile :
             With(tileToScreenCoords(m, startTile.x + layer.x, startTile.y + layer.y,
                                     tileWorkspace),
                  LAMBDA pos :
             With(Point(IF doStaggerY(p, startTile.y + layer.y)
                        THEN pos.x - p.columnWidth ELSE pos.x,
                        pos.y + p.tileHeight),
                  LAMBDA startPos :
                 LayerSweepY(p, rect, layer, tileWorkspace, startTile, startPos))))))))

(***************************************************************************)
(* The inputs the callers pass.                                            *)
(***************************************************************************)
Maps ==
    [orientation : {"Hexagonal"}, staggerAxis : {"StaggerX", "StaggerY"},
     staggerIndex : {StaggerOdd, StaggerEven}, hexSideLength : 0..MaxSide]

TileDims == 2..MaxTile

Indexes == (-MaxIndex)..MaxIndex

\* hexSideLength does not exceed the tile dimension on the stagger axis (the
\* callers validate it)
SideFits(m, workspace) ==
    m.hexSideLength <= (IF m.staggerAxis = "StaggerX" THEN workspace.tileWidth
                        ELSE workspace.tileHeight)

\* the workspaces of a map: grids of 0..MaxGrid tiles, tiles of 2..MaxTile pixels
Workspaces(m) ==
    {ws \in [width : 0..MaxGrid, height : 0..MaxGrid,
             tileWidth : TileDims, tileHeight : TileDims] : SideFits(m, ws)}

\* the workspaces that hold at least one tile
TiledWorkspaces(m) == {ws \in Workspaces(m) : ws.width >= 1 /\ ws.height >= 1}

\* the documented example: 3 x 3 tiles of 32 x 32 pixels
ScenarioWorkspace == Workspace(3, 3, 32, 32)

\* the workspaces the coordinate conversions are called with (they read the
\* tile size only)
FullWorkspaces(m) ==
    {ws \in Workspaces(m) : ws.width = MaxGrid /\ ws.height = MaxGrid}

\* tile rectangles: origins of both parities and signs, at least one tile
TileRects ==
    [x : (-2)..1, y : (-2)..1, width : 1..MaxGrid, height : 1..MaxGrid]

\* the pixels in and around the area of a workspace
Pixels(m, workspace) ==
    LET size == workSize(m, workspace)
    IN  {Point(px, py) : px \in (-1)..(size.width + 1), py \in (-1)..(size.height + 1)}

\* the workspaces the draw operations are called with
DrawWorkspaces(m) ==
    {ws \in Workspaces(m) : ws.tileWidth >= MaxTile - 1 /\ ws.tileHeight >= MaxTile - 1}

\* the whole area of a workspace
FullRect(m, workspace) ==
    LET size == workSize(m, workspace) IN Rect(0, 0, size.width, size.height)

\* exposed areas: null, empty and small ones at several places
ClipRects == [x : {0, 3}, y : {0, 3}, width : {0, 2, 5}, height : {0, 2, 5}]

\* exposed areas of the selection: null, empty, small and large
SelectionExposed(m, workspace) ==
    {Rect(0, 0, 0, 0), Rect(0, 0, 0, 5), Rect(0, 0, 5, 5), Rect(-20, -20, 40, 40),
     FullRect(m, workspace)}

\* selected regions: none, the whole grid, one tile, two rectangles
Regions(workspace) ==
    {<<>>, <<Rect(1, 1, 1, 1)>>, <<Rect(-1, 0, 2, 1), Rect(1, 1, 1, 2)>>}
    \cup (IF workspace.width >= 1 /\ workspace.height >= 1
          THEN {<<Rect(0, 0, workspace.width, workspace.height)>>} ELSE {})

LayerTiles(w, h) == {Point(tx, ty) : tx \in 0..(w - 1), ty \in 0..(h - 1)}

EmptyCell == [isEmpty |-> TRUE, hasTile |-> FALSE, size |-> [width |-> 0, height |-> 0]]

NullTileCell == [isEmpty |-> FALSE, hasTile |-> FALSE, size |-> [width |-> 0, height |-> 0]]

SizedCell == [isEmpty |-> FALSE, hasTile |-> TRUE, size |-> [width |-> 8, height |-> 7]]

\* a layer's cells: all empty, all with a null tile, all with a tile of 8 x 7
\* pixels, or empty and null-tile cells in a checkerboard
CellMaps(w, h) ==
    {[t \in LayerTiles(w, h) |-> kind] : kind \in {EmptyCell, NullTileCell, SizedCell}}
    \cup {[t \in LayerTiles(w, h) |-> IF (t.x + t.y) % 2 = 0 THEN NullTileCell ELSE EmptyCell]}

NoMargins == [left |-> 0, top |-> 0, right |-> 0, bottom |-> 0]

\* the draw margins of a layer with tiles 2 pixels wider and 1 pixel higher
\* than the grid's
WideMargins == [left |-> 0, top |-> 1, right |-> 2, bottom |-> 0]

\* the layers of a map
Layers(m) ==
    UNION {[width : {ws.width}, height : {ws.height},
            tileWidth : {ws.tileWidth}, tileHeight : {ws.tileHeight},
            x : {0, 1}, y : {0, 1},
            drawMargins : {NoMargins, WideMargins},
            cells : CellMaps(ws.width, ws.height)] : ws \in DrawWorkspaces(m)}

\* exposed areas of a layer: null, empty, small and large
LayerExposed == {Rect(0, 0, 0, 0), Rect(0, 0, 0, 5), Rect(3, 0, 5, 5), Rect(-20, -20, 60, 60)}

Idle == [op |-> "idle"]

NoResult == [op |-> "none"]

Init ==
    /\ map \in Maps
    /\ call = Idle
    /\ result = NoResult
    /\ painter = <<>>
    /\ tested = <<>>

(***************************************************************************)
(* The operations that compute a value.                                    *)
(***************************************************************************)
Compute(c, r) ==
    /\ call' = c
    /\ result' = r
    /\ UNCHANGED <<map, painter, tested>>

\* the RenderParams constructor, as every operation calls it
NewRenderParams ==
    /\ call = Idle
    /\ \E ws \in Workspaces(map) :
           Compute([op |-> "RenderParams", workspace |-> ws], RenderParams(map, ws))

TopLeft ==
    /\ call = Idle
    /\ \E x \in Indexes, y \in Indexes :
           Compute([op |-> "topLeft", x |-> x, y |-> y], topLeft(map, x, y))

TopRight ==
    /\ call = Idle
    /\ \E x \in Indexes, y \in Indexes :
           Compute([op |-> "topRight", x |-> x, y |-> y], topRight(map, x, y))

BottomLeft ==
    /\ call = Idle
    /\ \E x \in Indexes, y \in Indexes :
           Compute([op |-> "bottomLeft", x |-> x, y |-> y], bottomLeft(map, x, y))

BottomRight ==
    /\ call = Idle
    /\ \E x \in Indexes, y \in Indexes :
           Compute([op |-> "bottomRight", x |-> x, y |-> y], bottomRight(map, x, y))

WorkSize ==
    /\ call = Idle
    /\ \E ws \in Workspaces(map) \cup {ScenarioWorkspace} :
           Compute([op |-> "workSize", workspace |-> ws], workSize(map, ws))

BoundingRect ==
    /\ call = Idle
    /\ \E ws \in FullWorkspaces(map), rect \in TileRects :
           Compute([op |-> "boundingRect", rect |-> rect, workspace |-> ws],
                   boundingRect(map, rect, ws))

TileToScreenCoords ==
    /\ call = Idle
    /\ \E ws \in FullWorkspaces(map) \cup {ScenarioWorkspace},
          x \in Indexes, y \in Indexes :
           Compute([op |-> "tileToScreenCoords", x |-> x, y |-> y, workspace |-> ws],
                   tileToScreenCoords(map, x, y, ws))

ScreenToTileCoords ==
    /\ call = Idle
    /\ \E ws \in {w \in Workspaces(map) : w.width = 2 /\ w.height = 2} :
           \E q \in Pixels(map, ws) :
               Compute([op |-> "screenToTileCoords", x |-> q.x, y |-> q.y, workspace |-> ws],
                       screenToTileCoords(map, q.x, q.y, ws))

\* the middle of the box of tile (x, y)
TileCentre(m, x, y, workspace) ==
    With(RenderParams(m, workspace), LAMBDA p :
    With(tileToScreenCoords(m, x, y, workspace), LAMBDA pos :
        Point(pos.x + CDiv(p.tileWidth, 2), pos.y + CDiv(p.tileHeight, 2))))

\* screenToTileCoords called with the middle of the box of a tile
ScreenToTileCoordsAtCentre ==
    /\ call = Idle
    /\ \E ws \in FullWorkspaces(map), x \in Indexes, y \in Indexes :
           \E q \in {TileCentre(map, x, y, ws)} :
               Compute([op |-> "screenToTileCoords", x |-> q.x, y |-> q.y,
                        workspace |-> ws, centreOf |-> Point(x, y)],
                       screenToTileCoords(map, q.x, q.y, ws))

(***************************************************************************)
(* The operations that draw.                                               *)
(***************************************************************************)
Draw(c, commands, polygons) ==
    /\ call' = c
    /\ result' = NoResult
    /\ painter' = commands
    /\ tested' = polygons
    /\ UNCHANGED map

DrawGrid ==
    /\ call = Idle
    /\ \E ws \in DrawWorkspaces(map) :
           \E rect \in ClipRects \cup {FullRect(map, ws)} :
               Draw([op |-> "drawGrid", exposed |-> rect, workspace |-> ws],
                    drawGrid(map, rect, ws), <<>>)

DrawTileLayer ==
    /\ call = Idle
    /\ \E layer \in Layers(map), exposed \in LayerExposed :
           Draw([op |-> "drawTileLayer", layer |-> layer, exposed |-> exposed],
                drawTileLayer(map, layer, exposed), <<>>)

DrawTileSelection ==
    /\ call = Idle
    /\ \E ws \in DrawWorkspaces(map) :
           \E region \in Regions(ws), exposed \in SelectionExposed(map, ws) :
               Draw([op |-> "drawTileSelection", region |-> region, workspace |-> ws,
                     exposed |-> exposed],
                    drawTileSelection(map, region, ws, exposed),
                    SelectionPolygons(map, region))

TileToScreenPolygon ==
    /\ call = Idle
    /\ \E x \in Indexes, y \in Indexes :
           Compute([op |-> "tileToScreenPolygon", x |-> x, y |-> y],
                   tileToScreenPolygon(map, x, y))

ReturnToCaller ==
    /\ call # Idle
    /\ call' = Idle
    /\ result' = NoResult
    /\ painter' = <<>>
    /\ tested' = <<>>
    /\ UNCHANGED map

(***************************************************************************)
(* Specifications.                                                         *)
(***************************************************************************)
NextGeometry ==
    \/ TopLeft
    \/ TopRight
    \/ BottomLeft
    \/ BottomRight
    \/ WorkSize
    \/ BoundingRect
    \/ TileToScreenCoords
    \/ ReturnToCaller

SpecGeometry == Init /\ [][NextGeometry]_vars

NextConvert ==
    \/ ScreenToTileCoords
    \/ ReturnToCaller

SpecConvert == Init /\ [][NextConvert]_vars

(***************************************************************************)
(* C1: every integer pixel strictly inside the outline of a tile of the    *)
(* grid is converted back to that tile by screenToTileCoords.              *)
(***************************************************************************)
C1_InteriorRoundTrip ==
    call.op = "screenToTileCoords" =>
        \A x \in 0..(call.workspace.width - 1), y \in 0..(call.workspace.height - 1) :
            StrictlyInside(TileOutline(map, x, y, call.workspace), Point(call.x, call.y))
                => result = Point(x, y)

(***************************************************************************)
(* C2: the neighbour lookups are mutually inverse: topLeft undoes          *)
(* bottomRight, topRight undoes bottomLeft, and the other way round, for   *)
(* every tile index, both stagger axes and both stagger indexes.           *)
(***************************************************************************)
C2_NeighboursInverse ==
    /\ call.op = "bottomRight" => topLeft(map, result.x, result.y) = Point(call.x, call.y)
    /\ call.op = "bottomLeft" => topRight(map, result.x, result.y) = Point(call.x, call.y)
    /\ call.op = "topLeft" => bottomRight(map, result.x, result.y) = Point(call.x, call.y)
    /\ call.op = "topRight" => bottomLeft(map, result.x, result.y) = Point(call.x, call.y)

\* bottomRight of a tile with a negative odd index on the stagger axis, where
\* the lookup moves on both axes
C2_Witness ==
    /\ call.op = "bottomRight"
    /\ map.staggerAxis = "StaggerX"
    /\ map.staggerIndex = StaggerOdd
    /\ call.x = -1
    /\ result = Point(call.x + 1, call.y + 1)

(***************************************************************************)
(* C5: stagger symmetry.  With the stagger axis swapped and the workspace  *)
(* transposed, workSize has its width and height swapped,                  *)
(* tileToScreenCoords(y, x) has its components swapped, topLeft(y, x) and  *)
(* bottomRight(y, x) are the component-swapped topLeft(x, y) and           *)
(* bottomRight(x, y), and topRight(y, x), bottomLeft(y, x) are the         *)
(* component-swapped bottomLeft(x, y), topRight(x, y).                     *)
(***************************************************************************)
SwapAxis(m) ==
    [m EXCEPT !.staggerAxis = IF @ = "StaggerX" THEN "StaggerY" ELSE "StaggerX"]

Transpose(ws) == Workspace(ws.height, ws.width, ws.tileHeight, ws.tileWidth)

SwapPoint(pt) == Point(pt.y, pt.x)

C5_StaggerSymmetry ==
    /\ call.op = "workSize" =>
           workSize(SwapAxis(map), Transpose(call.workspace))
               = [width |-> result.height, height |-> result.width]
    /\ call.op = "tileToScreenCoords" =>
           tileToScreenCoords(SwapAxis(map), call.y, call.x, Transpose(call.workspace))
               = SwapPoint(result)
    /\ call.op = "topLeft" => topLeft(SwapAxis(map), call.y, call.x) = SwapPoint(result)
    /\ call.op = "bottomRight" => bottomRight(SwapAxis(map), call.y, call.x) = SwapPoint(result)
    /\ call.op = "bottomLeft" => topRight(SwapAxis(map), call.y, call.x) = SwapPoint(result)
    /\ call.op = "topRight" => bottomLeft(SwapAxis(map), call.y, call.x) = SwapPoint(result)

\* workSize of a stagger-Y grid that is neither square nor of square tiles,
\* with more than one row, so that the extra column width is added
C5_Witness ==
    /\ call.op = "workSize"
    /\ map.staggerAxis = "StaggerY"
    /\ map.hexSideLength = 2
    /\ call.workspace = Workspace(1, 3, 4, 6)
    /\ result = [width |-> 6, height |-> 14]

(***************************************************************************)
(* C6: the documented example.  Stagger axis X, stagger index Even, hex    *)
(* side length 4, 3 x 3 tiles of 32 x 32 pixels: sideOffsetX = 14,         *)
(* columnWidth = 18, sideOffsetY = 16, rowHeight = 16, workSize is 68 x    *)
(* 112 and tileToScreenCoords(1, 0) = (18, 0).  As amended,                *)
(* tileToScreenCoords(0, 0) = (0, 16): column 0 is even, so it is the      *)
(* shifted one.  The original statement has (0, 0) there.                  *)
(***************************************************************************)
ScenarioMap ==
    [orientation |-> "Hexagonal", staggerAxis |-> "StaggerX",
     staggerIndex |-> StaggerEven, hexSideLength |-> 4]

InScenario ==
    /\ map = ScenarioMap
    /\ call.op \in {"workSize", "tileToScreenCoords"}
    /\ call.workspace = ScenarioWorkspace

ScenarioExcept(origin) ==
    InScenario =>
        LET p == RenderParams(map, call.workspace)
        IN  /\ p.sideOffsetX = 14
            /\ p.columnWidth = 18
            /\ p.sideOffsetY = 16
            /\ p.rowHeight = 16
            /\ call.op = "workSize" => result = [width |-> 68, height |-> 112]
            /\ (call.op = "tileToScreenCoords" /\ call.x = 0 /\ call.y = 0)
                   => result = origin
            /\ (call.op = "tileToScreenCoords" /\ call.x = 1 /\ call.y = 0)
                   => result = Point(18, 0)

C6_Scenario == ScenarioExcept(Point(0, 16))

C6_Original == ScenarioExcept(Point(0, 0))

C6_Witness ==
    /\ InScenario
    /\ call.op = "tileToScreenCoords"
    /\ call.x = 0
    /\ call.y = 0
    /\ result = Point(0, 16)

(***************************************************************************)
(* C7: workSize is the footprint of the grid: the box of every tile of a   *)
(* workspace of at least one tile, [px, px + tileWidth] x                  *)
(* [py, py + tileHeight] at its screen position, lies inside               *)
(* [0, width] x [0, height] of workSize.                                   *)
(***************************************************************************)
BoxInside(m, x, y, workspace, r) ==
    LET p == RenderParams(m, workspace)
        pos == tileToScreenCoords(m, x, y, workspace)
    IN  /\ r.x <= pos.x
        /\ pos.x + p.tileWidth <= r.x + r.width
        /\ r.y <= pos.y
        /\ pos.y + p.tileHeight <= r.y + r.height

C7_WorkSizeFootprint ==
    (call.op = "workSize" /\ call.workspace.width >= 1 /\ call.workspace.height >= 1) =>
        \A x \in 0..(call.workspace.width - 1), y \in 0..(call.workspace.height - 1) :
            BoxInside(map, x, y, call.workspace, Rect(0, 0, result.width, result.height))

(***************************************************************************)
(* C8: boundingRect covers its tile range: the box of every tile of a      *)
(* non-empty tile rectangle lies inside the pixel rectangle boundingRect   *)
(* returns for it.                                                         *)
(***************************************************************************)
C8_BoundingRectCovers ==
    call.op = "boundingRect" =>
        \A x \in call.rect.x..(call.rect.x + call.rect.width - 1),
           y \in call.rect.y..(call.rect.y + call.rect.height - 1) :
            BoxInside(map, x, y, call.workspace, result)

(***************************************************************************)
(* C3: grid line completeness.  Called with the whole area of a workspace  *)
(* of at least one tile, drawGrid emits every edge of every tile's outline *)
(* exactly once among its non-degenerate line segments: every edge is      *)
(* emitted and no segment is emitted twice.                                *)
(***************************************************************************)
RECURSIVE Flatten(_)
Flatten(commands) ==
    IF commands = <<>> THEN <<>>
    ELSE Head(commands).lines \o Flatten(Tail(commands))

\* a line as an undirected segment
Segment(line) == {line.p1, line.p2}

\* the non-degenerate lines among the emitted ones
EmittedLines == SelectSeq(Flatten(painter), LAMBDA l : l.p1 # l.p2)

OutlineEdges(m, x, y, workspace) ==
    LET outline == TileOutline(m, x, y, workspace)
    IN  {{outline[i], outline[Next8(i)]} : i \in {j \in 1..8 : outline[j] # outline[Next8(j)]}}

GridEdges(m, workspace) ==
    UNION {OutlineEdges(m, x, y, workspace) :
               x \in 0..(workspace.width - 1), y \in 0..(workspace.height - 1)}

FullGridCall ==
    /\ call.op = "drawGrid"
    /\ call.workspace.width >= 1
    /\ call.workspace.height >= 1
    /\ call.exposed = FullRect(map, call.workspace)

C3_GridLineCompleteness ==
    FullGridCall =>
        LET lines == EmittedLines
        IN  /\ \A e \in GridEdges(map, call.workspace) :
                   \E i \in 1..Len(lines) : Segment(lines[i]) = e
            /\ \A i \in 1..Len(lines), j \in 1..Len(lines) :
                   i # j => Segment(lines[i]) # Segment(lines[j])

NextGrid ==
    \/ DrawGrid
    \/ ReturnToCaller

SpecGrid == Init /\ [][NextGrid]_vars

NextSelection ==
    \/ DrawTileSelection
    \/ TileToScreenPolygon
    \/ ReturnToCaller

SpecSelection == Init /\ [][NextSelection]_vars

(***************************************************************************)
(* C4: no gap and no overlap.  The polygons of all tiles of a W x H grid   *)
(* cover every pixel of the rectangle (0, 0, workSize), and no pixel lies  *)
(* strictly inside the polygons of two distinct tiles.  The polygons are   *)
(* those drawTileSelection builds for the region of the whole grid.        *)
(***************************************************************************)
WholeGridSelected ==
    /\ call.op = "drawTileSelection"
    /\ call.workspace.width >= 1
    /\ call.workspace.height >= 1
    /\ call.region = <<Rect(0, 0, call.workspace.width, call.workspace.height)>>

C4_NoGapNoOverlap ==
    WholeGridSelected =>
        LET size == workSize(map, call.workspace)
        IN  \A px \in 0..(size.width - 1), py \in 0..(size.height - 1) :
                /\ \E k \in 1..Len(tested) : Covers(tested[k].polygon, Point(px, py))
                /\ \A k \in 1..Len(tested), l \in 1..Len(tested) :
                       k # l => ~(/\ StrictlyInside(tested[k].polygon, Point(px, py))
                                 /\ StrictlyInside(tested[l].polygon, Point(px, py)))

(***************************************************************************)
(* C10: drawTileSelection uses the workspace it is passed: the polygon it  *)
(* builds, tests and fills for a tile of the region is the outline of that *)
(* tile in the workspace of the call.                                      *)
(***************************************************************************)
C10_SelectionUsesWorkspace ==
    call.op = "drawTileSelection" =>
        \A k \in 1..Len(tested) :
            tested[k].polygon = TileOutline(map, tested[k].x, tested[k].y, call.workspace)

NextLayer ==
    \/ DrawTileLayer
    \/ ReturnToCaller

SpecLayer == Init /\ [][NextLayer]_vars

NextDraw ==
    \/ DrawGrid
    \/ DrawTileLayer
    \/ DrawTileSelection
    \/ ReturnToCaller

SpecDraw == Init /\ [][NextDraw]_vars

(***************************************************************************)
(* C9: degenerate inputs are no-ops.  As amended: drawGrid and             *)
(* drawTileSelection issue no draw call when the exposed rectangle is null *)
(* or the workspace has no tiles, drawTileSelection none when the region   *)
(* is empty, and drawTileLayer none when the layer has no tiles.  The      *)
(* original statement has drawTileLayer issue none for a null exposed      *)
(* rectangle as well; the code then draws the whole layer.                 *)
(***************************************************************************)
NoTiles(size) == size.width = 0 \/ size.height = 0

GridAndSelectionNoOps ==
    /\ (call.op = "drawGrid" /\ (IsNull(call.exposed) \/ NoTiles(call.workspace)))
           => painter = <<>>
    /\ (call.op = "drawTileSelection"
           /\ (IsNull(call.exposed) \/ NoTiles(call.workspace) \/ call.region = <<>>))
           => painter = <<>>

C11_DefaultImageSize ==
    call.op = "drawTileLayer" =>
        \A k \in 1..Len(painter) :
            ~call.layer.cells[painter[k].tile].hasTile =>
                painter[k].size = [width |-> call.layer.tileWidth,
                                   height |-> call.layer.tileHeight]

(***************************************************************************)
(* C13: drawTileLayer anchors every cell at its computed screen position.  *)
(* In both sweeps, the position of every render call made for the          *)
(* layer-local tile t is tileToScreenCoords(t + layer position) +          *)
(* (0, tileHeight), for every hexSideLength within the tile dimension and  *)
(* every exposed rectangle.                                                *)
(***************************************************************************)
LayerWorkspace(layer) ==
    Workspace(layer.width, layer.height, layer.tileWidth, layer.tileHeight)

Anchor(m, layer, t) ==
    Plus(tileToScreenCoords(m, t.x + layer.x, t.y + layer.y, LayerWorkspace(layer)),
         Point(0, RenderParams(m, LayerWorkspace(layer)).tileHeight))

C13_LayerAnchors ==
    call.op = "drawTileLayer" =>
        \A k \in 1..Len(painter) :
            painter[k].pos = Anchor(map, call.layer, painter[k].tile)

(***************************************************************************)
(* C15: the neighbour lookups agree with the pixel geometry.  With P =     *)
(* tileToScreenCoords, P(topLeft(x, y)) = P(x, y) + (-columnWidth,         *)
(* -rowHeight), P(topRight(x, y)) = P(x, y) + (columnWidth, -rowHeight),   *)
(* P(bottomLeft(x, y)) = P(x, y) + (-columnWidth, rowHeight) and           *)
(* P(bottomRight(x, y)) = P(x, y) + (columnWidth, rowHeight), for every    *)
(* tile index, both stagger axes, both stagger indexes and every tile      *)
(* size.                                                                   *)
(***************************************************************************)
NeighbourAt(dx, dy) ==
    \A ws \in FullWorkspaces(map) :
        LET p == RenderParams(map, ws)
        IN  tileToScreenCoords(map, result.x, result.y, ws)
              = Plus(tileToScreenCoords(map, call.x, call.y, ws),
                     Point(dx * p.columnWidth, dy * p.rowHeight))

Side(a, b, q) == (b.x - a.x) * (q.y - a.y) - (b.y - a.y) * (q.x - a.x)

\* the segment of a line meets the pixels of rect: their extents overlap on
\* both axes and the corners of rect are not all strictly on one side of it
LineMeets(line, rect) ==
    LET corners == {Point(cx, cy) : cx \in {rect.x, Right(rect)}, cy \in {rect.y, Bottom(rect)}}
    IN  /\ rect.width > 0
        /\ rect.height > 0
        /\ Max(line.p1.x, line.p2.x) >= rect.x
        /\ -Max(-line.p1.x, -line.p2.x) <= Right(rect)
        /\ Max(line.p1.y, line.p2.y) >= rect.y
        /\ -Max(-line.p1.y, -line.p2.y) <= Bottom(rect)
        /\ ~(\A c \in corners : Side(line.p1, line.p2, c) > 0)
        /\ ~(\A c \in corners : Side(line.p1, line.p2, c) < 0)

Within(inner, outer) ==
    /\ outer.x <= inner.x
    /\ outer.y <= inner.y
    /\ Right(inner) <= Right(outer)
    /\ Bottom(inner) <= Bottom(outer)

ClippedGridCall ==
    /\ call.op = "drawGrid"
    /\ ~IsNull(call.exposed)
    /\ Within(call.exposed, FullRect(map, call.workspace))

GridVisitsInside ==
    call.op = "drawGrid" =>
        \A k \in 1..Len(painter) :
            /\ 0 <= painter[k].tile.x
            /\ painter[k].tile.x < call.workspace.width
            /\ 0 <= painter[k].tile.y
            /\ painter[k].tile.y < call.workspace.height

C16_ClipLosesNoLine ==
    /\ GridVisitsInside
    /\ ClippedGridCall =>
           LET whole == Flatten(drawGrid(map, FullRect(map, call.workspace), call.workspace))
               emitted == {Segment(l) : l \in {EmittedLines[i] : i \in 1..Len(EmittedLines)}}
           IN  \A i \in 1..Len(whole) :
                   (whole[i].p1 # whole[i].p2 /\ LineMeets(whole[i], call.exposed))
                       => Segment(whole[i]) \in emitted

NextCentre ==
    \/ ScreenToTileCoordsAtCentre
    \/ ReturnToCaller

SpecCentre == Init /\ [][NextCentre]_vars

(***************************************************************************)
(* C14: centroid round trip.  For both stagger axes and both stagger       *)
(* indexes, every even tile size, every hexSideLength within the tile      *)
(* dimension on the stagger axis and every tile (x, y), negative indexes   *)
(* included, screenToTileCoords of tileToScreenCoords(x, y) +              *)
(* (tileWidth/2, tileHeight/2) is (x, y); and the components of the        *)
(* result of screenToTileCoords are integers.                              *)
(***************************************************************************)
EvenTiles(workspace) == workspace.tileWidth % 2 = 0 /\ workspace.tileHeight % 2 = 0

C14_CentroidRoundTrip ==
    (call.op = "screenToTileCoords" /\ EvenTiles(call.workspace)) =>
        /\ result = call.centreOf
        /\ result.x \in Int
        /\ result.y \in Int

NextParams ==
    \/ NewRenderParams
    \/ ReturnToCaller

SpecParams == Init /\ [][NextParams]_vars

(***************************************************************************)
(* C12: the RenderParams invariant.  For a hexagonal map the side length   *)
(* on the stagger axis equals hexSideLength and the other one is 0,        *)
(* tileWidth and tileHeight are the workspace's values rounded down to     *)
(* even, columnWidth = sideOffsetX + sideLengthX and rowHeight =           *)
(* sideOffsetY + sideLengthY.  As amended: exactly one of the two side     *)
(* lengths is nonzero when hexSideLength > 0, and both are 0 when          *)
(* hexSideLength = 0.  The original statement has exactly one nonzero      *)
(* for hexSideLength = 0 as well.                                          *)
(***************************************************************************)
RoundedDownToEven(n, v) == v % 2 = 0 /\ v <= n /\ n < v + 2

ParamsExcept(oneNonzero) ==
    call.op = "RenderParams" =>
        LET p == result
            onAxis == IF map.staggerAxis = "StaggerX" THEN p.sideLengthX ELSE p.sideLengthY
            offAxis == IF map.staggerAxis = "StaggerX" THEN p.sideLengthY ELSE p.sideLengthX
        IN  /\ onAxis = map.hexSideLength
            /\ offAxis = 0
            /\ oneNonzero => (p.sideLengthX # 0) # (p.sideLengthY # 0)
            /\ RoundedDownToEven(call.workspace.tileWidth, p.tileWidth)
            /\ RoundedDownToEven(call.workspace.tileHeight, p.tileHeight)
            /\ p.columnWidth = p.sideOffsetX + p.sideLengthX
            /\ p.rowHeight = p.sideOffsetY + p.sideLengthY

C12_RenderParams ==
    /\ ParamsExcept(map.hexSideLength > 0)
    /\ (call.op = "RenderParams" /\ map.hexSideLength = 0)
           => (result.sideLengthX = 0 /\ result.sideLengthY = 0)

C12_Original == ParamsExcept(TRUE)

\* parameters built for a stagger-Y map with a side length, from odd tile sizes
C12_Witness ==
    /\ call.op = "RenderParams"
    /\ map.staggerAxis = "StaggerY"
    /\ map.hexSideLength = 3
    /\ call.workspace.tileWidth = 5
    /\ call.workspace.tileHeight = 5
    /\ result.sideLengthY = 3
    /\ result.tileHeight = 4

(***************************************************************************)
(* The renderer as a whole: any operation may be called when none is in    *)
(* progress.                                                               *)
(***************************************************************************)
Next ==
    \/ NewRenderParams
    \/ ScreenToTileCoordsAtCentre
    \/ TopLeft
    \/ TopRight
    \/ BottomLeft
    \/ BottomRight
    \/ WorkSize
    \/ BoundingRect
    \/ TileToScreenCoords
    \/ ScreenToTileCoords
    \/ DrawGrid
    \/ DrawTileLayer
    \/ DrawTileSelection
    \/ TileToScreenPolygon
    \/ ReturnToCaller

Spec == Init /\ [][Next]_vars

=============================================================================
